---- MODULE Spec2Model ----
(***************************************************************************)
(* Credential and session lifecycle of the scribe backend (app/auth.py,    *)
(* app/database.py) and the gate in front of its protected routes          *)
(* (app/notes.py, app/generate.py, app/transcribe.py).                     *)
(*                                                                         *)
(* Time is counted in minutes.  A request handler is one step, except      *)
(* that a handler which reads the store and then writes it is two steps    *)
(* (the SELECT, then the write transaction up to its commit): another      *)
(* worker process sharing the SQLite file can commit between the two.      *)
(***************************************************************************)
EXTENDS Integers, Sequences, FiniteSets, TLC

VARIABLES
    users,      \* rows of table users
    sessions,   \* rows of table sessions
    now,        \* datetime.utcnow(), in minutes
    ticks,      \* number of clock advances so far
    tokens,     \* number of session tokens generated so far
    pc,         \* per worker: where its current request stands
    local,      \* per worker: the local variables of its current request
    resp,       \* the HTTP response produced by the last step, if any
    mail,       \* the call to app.email_service made by the last step, if any
    notes,      \* rows of table notes
    email_counts, \* per worker process: its dictionary email_counts
    api         \* the call to a text or speech service made by the last step, if any

vars == <<users, sessions, now, ticks, tokens, pc, local, resp, mail,
          notes, email_counts, api>>

(***************************************************************************)
(* Bounds of the model.                                                    *)
(***************************************************************************)
MaxTicks == 2
MaxTokens == 2
IsoWidth == 6
MaxOldSame == 3
MaxNewSame == 4

Procs == {1, 2}

(***************************************************************************)
(* Program constants.                                                      *)
(***************************************************************************)
SESSION_EXPIRE_DAYS == 30
MinutesPerDay == 1440
CODE_EXPIRE_MINUTES == 15
MIN_PASSWORD_LENGTH == 8
RATE_WINDOW_MINUTES == 60
MAX_EMAILS_PER_NOTE == 3
MAX_EMAILS_PER_HOUR == 20
MIN_DICTATION_LENGTH == 10
MIN_AUDIO_BYTES == 100
MAX_AUDIO_BYTES == 25 * 1024 * 1024

NULL == <<>>

\* the clock moves by a code's lifetime, or by the rest of a session's
ClockSteps ==
    {CODE_EXPIRE_MINUTES,
     SESSION_EXPIRE_DAYS * MinutesPerDay - CODE_EXPIRE_MINUTES}

(***************************************************************************)
(* Request inputs.                                                         *)
(***************************************************************************)
Passwords == {"seven77", "longpw123", "otherpw456"}
Codes == {<<1, 2, 3, 4, 5, 6>>, <<1, 2, 3, 4, 5, 7>>}
Salts == {"s1"}

\* the second account is driven with one password and one name
RegisterRequests ==
    [email : {"a@x.com"}, password : Passwords, name : {"A"}]
        \cup {[email |-> "A@X.com", password |-> "otherpw456", name |-> "B"],
              [email |-> "b@x.com", password |-> "longpw123", name |-> "B"]}
VerifyRequests ==
    [email : {"a@x.com", "b@x.com"}, code : Codes]
        \cup {[email |-> "A@X.com", code |-> <<1, 2, 3, 4, 5, 6>>]}
LoginRequests ==
    [email : {"a@x.com"}, password : Passwords]
        \cup {[email |-> "A@X.com", password |-> "longpw123"],
              [email |-> "b@x.com", password |-> "longpw123"],
              [email |-> "b@x.com", password |-> "otherpw456"]}
ForgotRequests == [email : {"a@x.com", "b@x.com", " "}]
ResetRequests ==
    [email : {"a@x.com"}, code : {<<1, 2, 3, 4, 5, 6>>},
     new_password : {"seven77", "longpw123"}]
        \cup {[email |-> " ", code |-> <<1, 2, 3, 4, 5, 6>>,
                new_password |-> "longpw123"]}

\* str.lower() on the request emails
lower(e) == IF e = "A@X.com" THEN "a@x.com" ELSE e

\* str.strip() on the request emails
strip(e) == IF e = " " THEN "" ELSE e

TokenOf(n) == <<"tok", n>>
NoToken == <<>>
\* cookie values a request may carry: none, issued tokens, one never issued
Cookies == {NoToken} \cup {TokenOf(n) : n \in 1..(MaxTokens + 1)}

(***************************************************************************)
(* hashlib / bcrypt / datetime helpers.                                    *)
(***************************************************************************)
hash_token(token) == <<"sha256", token>>

hashpw(password, salt) == <<"bcrypt", salt, password>>

checkpw(password, hashed) == hashpw(password, hashed[2]) = hashed

RECURSIVE Pow10(_)
Pow10(k) == IF k = 0 THEN 1 ELSE 10 * Pow10(k - 1)

\* datetime.isoformat(): fixed-width fields, most significant first
isoformat(t) == [i \in 1..IsoWidth |-> (t \div Pow10(IsoWidth - i)) % 10]

\* datetime.fromisoformat()
fromisoformat(s) ==
    LET RECURSIVE val(_)
        val(k) == IF k = 0 THEN 0 ELSE 10 * val(k - 1) + s[k]
    IN val(Len(s))

\* SQLite's comparison of two TEXT values (memcmp, the shorter a prefix)
TextGreater(a, b) ==
    \/ \E i \in 1..Len(a) :
          /\ i <= Len(b)
          /\ a[i] > b[i]
          /\ \A j \in 1..(i - 1) : a[j] = b[j]
    \/ /\ Len(a) > Len(b)
       /\ \A j \in 1..Len(b) : a[j] = b[j]

(***************************************************************************)
(* Responses.                                                              *)
(***************************************************************************)
NoResp == [op |-> "none"]
NoMail == [kind |-> "none"]
NoLocal == [op |-> "none"]
NoCall == [service |-> "none"]

Reply(op, req, status, detail) ==
    [op |-> op, req |-> req, status |-> status, detail |-> detail]

ReplyCookie(op, req, status, detail, cookie) ==
    [op |-> op, req |-> req, status |-> status, detail |-> detail, cookie |-> cookie]

\* an exception no handler catches
InternalServerError(op, req) == Reply(op, req, 500, "Internal Server Error")

(***************************************************************************)
(* The columns of table users that init_db() creates.                      *)
(***************************************************************************)
UsersColumns ==
    {"id", "email", "password_hash", "name", "email_verified",
     "verification_code_hash", "verification_expires", "created_at"}

\* a statement naming a column the table lacks raises sqlite3.OperationalError
NoSuchColumn(columns) == ~(columns \subseteq UsersColumns)

\* the value of a column of a row (NULL unless it has been set)
Column(u, c) == IF c \in DOMAIN u THEN u[c] ELSE NULL

\* UPDATE users SET c1 = v1, c2 = v2 on one row
SetColumns(u, c1, v1, c2, v2) ==
    [c \in DOMAIN u \cup {c1, c2} |->
        IF c = c1 THEN v1 ELSE IF c = c2 THEN v2 ELSE u[c]]

(***************************************************************************)
(* Initial state: init_db() has created the empty tables.                  *)
(***************************************************************************)
Init ==
    /\ users = {}
    /\ sessions = {}
    /\ now = 0
    /\ ticks = 0
    /\ tokens = 0
    /\ pc = [p \in Procs |-> "idle"]
    /\ local = [p \in Procs |-> NoLocal]
    /\ resp = NoResp
    /\ mail = NoMail
    /\ notes = {}
    /\ email_counts = [p \in Procs |-> [u \in {} |-> <<>>]]
    /\ api = NoCall

(***************************************************************************)
(* Steps of a worker.                                                      *)
(***************************************************************************)
\* a worker takes its next step once the last response has gone out
Ready(p, label) ==
    /\ pc[p] = label
    /\ resp = NoResp

\* the handler returns or raises: the worker is free again
Finish(p, r) ==
    /\ pc' = [pc EXCEPT ![p] = "idle"]
    /\ local' = [local EXCEPT ![p] = NoLocal]
    /\ resp' = r

\* the handler has read the store and is about to write it
Goto(p, label, l) ==
    /\ pc' = [pc EXCEPT ![p] = label]
    /\ local' = [local EXCEPT ![p] = l]
    /\ resp' = NoResp

\* a step of the credential routes: notes, rate windows and services untouched
NoGlue ==
    /\ UNCHANGED <<notes, email_counts>>
    /\ api' = NoCall

\* session tokens that in-flight requests are still to generate
Pending == Cardinality({q \in Procs : pc[q] \in {"verify_write", "login_write"}})

(***************************************************************************)
(* app.email_service (not part of the sources): returns success or failure *)
(***************************************************************************)
send_verification_email(to, code, name, ok) ==
    [kind |-> "verification", to |-> to, code |-> code, name |-> name, ok |-> ok]

send_reset_email(to, code, name, ok) ==
    [kind |-> "reset", to |-> to, code |-> code, name |-> name, ok |-> ok]

send_soap_note_email(to, subject, body, ok) ==
    [kind |-> "soap_note", to |-> to, subject |-> subject, body |-> body, ok |-> ok]

(***************************************************************************)
(* get_current_user / require_auth                                         *)
(***************************************************************************)
\* mutant: a session still counts at the instant of its expiry
session_matches_at_expiry(s, token_hash) ==
    /\ s.token_hash = token_hash
    /\ ~TextGreater(isoformat(now), s.expires_at)

\* WHERE s.token_hash = ? AND s.expires_at > ?
session_matches(s, token_hash) ==
    /\ s.token_hash = token_hash
    /\ TextGreater(s.expires_at, isoformat(now))

\* the rows of users JOIN sessions that the query of get_current_user selects
get_current_user(token) ==
    IF token = NoToken
    THEN {}
    ELSE {u \in users : \E s \in sessions :
              /\ u.id = s.user_id
              /\ session_matches(s, hash_token(token))}

\* mutant: the gate looks the session up by its token alone
require_auth_any_session(token) ==
    IF token = NoToken
    THEN {}
    ELSE {u \in users : \E s \in sessions :
              /\ u.id = s.user_id
              /\ s.token_hash = hash_token(token)}

\* the account the gate lets through; none: 401 "Not authenticated"
require_auth(token) == get_current_user(token)

(***************************************************************************)
(* POST /api/auth/register                                                 *)
(***************************************************************************)
\* mutant: a password of exactly the minimum length is refused too
weak_password_inclusive(password) == Len(password) <= MIN_PASSWORD_LENGTH

\* len(password) < 8
weak_password(password) == Len(password) < MIN_PASSWORD_LENGTH

\* mutant: the check for an already verified account is missing
register_check_unguarded(data) ==
    IF Len(data.password) < MIN_PASSWORD_LENGTH
    THEN "Password must be at least 8 characters"
    ELSE ""

\* the outcome of the checks that come before the write
register_check(data) ==
    IF weak_password(data.password)
    THEN "Password must be at least 8 characters"
    ELSE IF \E u \in users : u.email = lower(data.email) /\ u.email_verified # 0
    THEN "Email already registered"
    ELSE ""

\* mutant: the UPDATE renews the code and leaves the verifier and the name
register_update_code_only(u, l) ==
    [u EXCEPT !.verification_code_hash = l.code_hash,
              !.verification_expires = l.expires]

\* UPDATE users SET password_hash, name, verification_code_hash, verification_expires
register_update(u, l) ==
    [u EXCEPT !.password_hash = l.password_hash,
              !.name = l.data.name,
              !.verification_code_hash = l.code_hash,
              !.verification_expires = l.expires]

\* INSERT INTO users (email, password_hash, name, verification_code_hash, ...)
register_insert(l) ==
    [id |-> Cardinality(users) + 1,
     email |-> lower(l.data.email),
     password_hash |-> l.password_hash,
     name |-> l.data.name,
     email_verified |-> 0,
     verification_code_hash |-> l.code_hash,
     verification_expires |-> l.expires]

register(p, data) ==
    /\ Ready(p, "idle")
    /\ NoGlue
    /\ UNCHANGED <<users, sessions, now, ticks, tokens>>
    /\ mail' = NoMail
    /\ IF register_check(data) # ""
       THEN Finish(p, Reply("register", data, 400, register_check(data)))
       ELSE \E salt \in Salts, code \in Codes :
              Goto(p, "register_write",
                   [op |-> "register", data |-> data,
                    password_hash |-> hashpw(data.password, salt),
                    code |-> code,
                    code_hash |-> hash_token(code),
                    expires |-> isoformat(now + CODE_EXPIRE_MINUTES),
                    existing |-> \E u \in users : u.email = lower(data.email)])

\* mutant: the outcome of the dispatch is not looked at
register_reply_lenient(data, ok) ==
    Reply("register", data, 200, "Verification code sent to your email")

\* if not send_verification_email(...): raise HTTPException(500, ...)
register_reply(data, ok) ==
    IF ok
    THEN Reply("register", data, 200, "Verification code sent to your email")
    ELSE Reply("register", data, 500, "Failed to send verification email")

\* the UPDATE or INSERT, the commit, and the dispatch of the code
register_write(p) ==
    /\ Ready(p, "register_write")
    /\ NoGlue
    /\ UNCHANGED <<sessions, now, ticks, tokens>>
    /\ LET l == local[p]
           email == lower(l.data.email)
       IN  IF ~l.existing /\ \E u \in users : u.email = email
           THEN \* UNIQUE constraint failed: users.email
                /\ UNCHANGED users
                /\ mail' = NoMail
                /\ Finish(p, InternalServerError("register", l.data))
           ELSE /\ users' =
                     IF l.existing
                     THEN {IF u.email = email THEN register_update(u, l) ELSE u :
                              u \in users}
                     ELSE users \cup {register_insert(l)}
                /\ \E ok \in BOOLEAN :
                     /\ mail' = send_verification_email(l.data.email, l.code,
                                                        l.data.name, ok)
                     /\ Finish(p, register_reply(l.data, ok))

(***************************************************************************)
(* POST /api/auth/verify                                                   *)
(***************************************************************************)
\* SELECT ... FROM users WHERE email = ? AND verification_code_hash = ?
verify_select(data) ==
    {u \in users :
        /\ u.email = lower(data.email)
        /\ u.verification_code_hash = hash_token(data.code)}

\* mutant: the code is already dead at the instant of its expiry
verify_expired_early(u) == fromisoformat(u.verification_expires) <= now

\* datetime.fromisoformat(user["verification_expires"]) < datetime.utcnow()
verify_expired(u) == fromisoformat(u.verification_expires) < now

\* mutant: the pending code is left in place
verify_update_keeps_code(u) == [u EXCEPT !.email_verified = 1]

\* UPDATE users SET email_verified = 1, verification_code_hash = NULL, ...
verify_update(u) ==
    [u EXCEPT !.email_verified = 1,
              !.verification_code_hash = NULL,
              !.verification_expires = NULL]

\* mutant: the session row keeps the token itself
verify_session_raw(user_id, token) ==
    [user_id |-> user_id,
     token_hash |-> token,
     expires_at |-> isoformat(now + SESSION_EXPIRE_DAYS * MinutesPerDay)]

\* INSERT INTO sessions (user_id, token_hash, expires_at)
verify_session(user_id, token) ==
    [user_id |-> user_id,
     token_hash |-> hash_token(token),
     expires_at |-> isoformat(now + SESSION_EXPIRE_DAYS * MinutesPerDay)]

verify(p, data) ==
    /\ Ready(p, "idle")
    /\ NoGlue
    /\ UNCHANGED <<users, sessions, now, ticks, tokens>>
    /\ mail' = NoMail
    /\ LET user == verify_select(data)
       IN  IF user = {}
           THEN Finish(p, Reply("verify", data, 400, "Invalid verification code"))
           ELSE IF \E u \in user : verify_expired(u)
           THEN Finish(p, Reply("verify", data, 400, "Verification code expired"))
           ELSE /\ tokens + Pending < MaxTokens
                /\ \E u \in user :
                     Goto(p, "verify_write",
                          [op |-> "verify", data |-> data, id |-> u.id])

\* the UPDATE of the account and the INSERT of its session, committed together
verify_write(p) ==
    /\ Ready(p, "verify_write")
    /\ NoGlue
    /\ UNCHANGED <<now, ticks>>
    /\ mail' = NoMail
    /\ LET l == local[p]
           token == TokenOf(tokens + 1)
       IN  /\ tokens' = tokens + 1
           /\ users' = {IF u.id = l.id THEN verify_update(u) ELSE u : u \in users}
           /\ sessions' = sessions \cup {verify_session(l.id, token)}
           /\ Finish(p, ReplyCookie("verify", l.data, 200,
                                    "Email verified successfully", token))

(***************************************************************************)
(* POST /api/auth/login                                                    *)
(***************************************************************************)
\* mutant: the verified flag is looked at before the password
login_check_flag_first(user, data) ==
    IF user = {}
    THEN "Invalid email or password"
    ELSE IF \E u \in user : u.email_verified = 0
    THEN "Please verify your email first"
    ELSE IF \E u \in user : ~checkpw(data.password, u.password_hash)
    THEN "Invalid email or password"
    ELSE ""

\* mutant: the verified flag is not looked at
login_check_no_flag(user, data) ==
    IF user = {}
    THEN "Invalid email or password"
    ELSE IF \E u \in user : ~checkpw(data.password, u.password_hash)
    THEN "Invalid email or password"
    ELSE ""

\* the outcome of the checks of login on the row it selected
login_check(user, data) ==
    IF user = {}
    THEN "Invalid email or password"
    ELSE IF \E u \in user : ~checkpw(data.password, u.password_hash)
    THEN "Invalid email or password"
    ELSE IF \E u \in user : u.email_verified = 0
    THEN "Please verify your email first"
    ELSE ""

\* mutant: a login replaces the account's earlier sessions
login_insert_single(rows, user_id, token) ==
    {s \in rows : s.user_id # user_id}
        \cup {[user_id |-> user_id,
                token_hash |-> hash_token(token),
                expires_at |-> isoformat(now + SESSION_EXPIRE_DAYS * MinutesPerDay)]}

\* INSERT INTO sessions (user_id, token_hash, expires_at)
login_insert(rows, user_id, token) ==
    rows \cup {[user_id |-> user_id,
                token_hash |-> hash_token(token),
                expires_at |-> isoformat(now + SESSION_EXPIRE_DAYS * MinutesPerDay)]}

login(p, data) ==
    /\ Ready(p, "idle")
    /\ NoGlue
    /\ UNCHANGED <<users, sessions, now, ticks, tokens>>
    /\ mail' = NoMail
    /\ LET user == {u \in users : u.email = lower(data.email)}
       IN  IF login_check(user, data) # ""
           THEN Finish(p, Reply("login", data, 401, login_check(user, data)))
           ELSE /\ tokens + Pending < MaxTokens
                /\ \E u \in user :
                     Goto(p, "login_write",
                          [op |-> "login", data |-> data, id |-> u.id])

\* the INSERT of the session and its commit
login_write(p) ==
    /\ Ready(p, "login_write")
    /\ NoGlue
    /\ UNCHANGED <<users, now, ticks>>
    /\ mail' = NoMail
    /\ LET l == local[p]
           token == TokenOf(tokens + 1)
       IN  /\ tokens' = tokens + 1
           /\ sessions' = login_insert(sessions, l.id, token)
           /\ Finish(p, ReplyCookie("login", l.data, 200, "Login successful", token))

(***************************************************************************)
(* POST /api/auth/logout                                                   *)
(***************************************************************************)
\* mutant: a logout ends every session of the account
logout_delete_account(token) ==
    IF token = NoToken
    THEN {}
    ELSE {s \in sessions :
             \E t \in sessions :
                /\ t.token_hash = hash_token(token)
                /\ s.user_id = t.user_id}

\* the rows that DELETE FROM sessions WHERE token_hash = ? removes
logout_delete(token) ==
    IF token = NoToken
    THEN {}
    ELSE {s \in sessions : s.token_hash = hash_token(token)}

\* mutant: revoking a token that matches no session is an error
logout_reply_strict(token, rowcount) ==
    [op |-> "logout", req |-> token,
     status |-> IF rowcount = 0 THEN 401 ELSE 200,
     detail |-> IF rowcount = 0 THEN "Not authenticated" ELSE "Logged out",
     rowcount |-> rowcount]

\* what the handler answers
logout_reply(token, rowcount) ==
    [op |-> "logout", req |-> token, status |-> 200, detail |-> "Logged out",
     rowcount |-> rowcount]

logout(p, token) ==
    /\ Ready(p, "idle")
    /\ NoGlue
    /\ UNCHANGED <<users, now, ticks, tokens>>
    /\ mail' = NoMail
    /\ sessions' = sessions \ logout_delete(token)
    /\ Finish(p, logout_reply(token, Cardinality(logout_delete(token))))

(***************************************************************************)
(* GET /api/auth/me                                                        *)
(***************************************************************************)
me(p, token) ==
    /\ Ready(p, "idle")
    /\ NoGlue
    /\ UNCHANGED <<users, sessions, now, ticks, tokens>>
    /\ mail' = NoMail
    /\ LET user == get_current_user(token)
       IN  IF user = {}
           THEN Finish(p, Reply("me", token, 401, "Not authenticated"))
           ELSE \E u \in user :
                  Finish(p, [op |-> "me", req |-> token, status |-> 200,
                             detail |-> "", user |-> u.id])

(***************************************************************************)
(* POST /api/auth/forgot-password                                          *)
(***************************************************************************)
forgot_password(p, data) ==
    /\ Ready(p, "idle")
    /\ NoGlue
    /\ UNCHANGED <<sessions, now, ticks, tokens>>
    /\ LET email == strip(lower(data.email))
           user == {u \in users : u.email = email}
           generic == "If an account exists with that email, a reset code has been sent"
       IN  IF email = ""
           THEN /\ UNCHANGED users
                /\ mail' = NoMail
                /\ Finish(p, Reply("forgot_password", data, 400, "Email is required"))
           ELSE IF user = {} \/ \E u \in user : u.email_verified = 0
           THEN /\ UNCHANGED users
                /\ mail' = NoMail
                /\ Finish(p, Reply("forgot_password", data, 200, generic))
           ELSE \E code \in Codes :
                  IF NoSuchColumn({"reset_code_hash", "reset_code_expires"})
                  THEN /\ UNCHANGED users
                       /\ mail' = NoMail
                       /\ Finish(p, InternalServerError("forgot_password", data))
                  ELSE /\ users' =
                            {IF u \in user
                             THEN SetColumns(u, "reset_code_hash", hash_token(code),
                                             "reset_code_expires",
                                             isoformat(now + CODE_EXPIRE_MINUTES))
                             ELSE u : u \in users}
                       /\ \E ok \in BOOLEAN, u \in user :
                            mail' = send_reset_email(email, code, u.name, ok)
                       /\ Finish(p, Reply("forgot_password", data, 200, generic))

(***************************************************************************)
(* POST /api/auth/reset-password                                           *)
(***************************************************************************)
\* mutant: a reset ends the sessions of the account it is asked for
reset_password_revoking(p, data) ==
    /\ Ready(p, "idle")
    /\ NoGlue
    /\ UNCHANGED <<users, now, ticks, tokens>>
    /\ mail' = NoMail
    /\ sessions' =
          {s \in sessions :
              ~\E u \in users :
                  /\ u.email = strip(lower(data.email))
                  /\ u.id = s.user_id}
    /\ Finish(p, InternalServerError("reset_password", data))

reset_password(p, data) ==
    /\ Ready(p, "idle")
    /\ NoGlue
    /\ UNCHANGED <<sessions, now, ticks, tokens>>
    /\ mail' = NoMail
    /\ LET email == strip(lower(data.email))
           user == {u \in users :
                      /\ u.email = email
                      /\ Column(u, "reset_code_hash") = hash_token(data.code)}
       IN  IF email = "" \/ data.code = <<>> \/ data.new_password = ""
           THEN /\ UNCHANGED users
                /\ Finish(p, Reply("reset_password", data, 400,
                                   "Email, code, and new password are required"))
           ELSE IF weak_password(data.new_password)
           THEN /\ UNCHANGED users
                /\ Finish(p, Reply("reset_password", data, 400,
                                   "Password must be at least 8 characters"))
           ELSE IF NoSuchColumn({"reset_code_hash", "reset_code_expires"})
           THEN /\ UNCHANGED users
                /\ Finish(p, InternalServerError("reset_password", data))
           ELSE IF user = {}
           THEN /\ UNCHANGED users
                /\ Finish(p, Reply("reset_password", data, 400, "Invalid reset code"))
           ELSE IF \E u \in user :
                     fromisoformat(Column(u, "reset_code_expires")) < now
           THEN /\ UNCHANGED users
                /\ Finish(p, Reply("reset_password", data, 400, "Reset code expired"))
           ELSE \E salt \in Salts :
                  /\ users' =
                       {IF u \in user
                        THEN [SetColumns(u, "reset_code_hash", NULL,
                                         "reset_code_expires", NULL)
                                EXCEPT !.password_hash =
                                           hashpw(data.new_password, salt)]
                        ELSE u : u \in users}
                  /\ Finish(p, Reply("reset_password", data, 200,
                                     "Password reset successfully"))

(***************************************************************************)
(* The protected routes.  A request is one the framework has dispatched to *)
(* its handler: a well-formed body, an integer note id.                    *)
(***************************************************************************)
NoteIds == {1, 2}
Dictations == {"", "too short", "pt c/o cough x3 days"}
AudioSizes == {MIN_AUDIO_BYTES - 1, MIN_AUDIO_BYTES, MAX_AUDIO_BYTES, MAX_AUDIO_BYTES + 1}
NoteBodies == {[label |-> "visit", soap_note |-> "S: cough"]}

\* the fields of model NoteCreate
NoteCreateFields ==
    {"label", "patient_age", "patient_gender", "visit_type", "specialty",
     "chief_complaint", "raw_dictation", "soap_note"}

\* the attributes of the body that create_note reads for its INSERT
NoteCreateReads == NoteCreateFields \cup {"encounter_time"}

Unauthenticated(op, req) == Reply(op, req, 401, "Not authenticated")

\* a step of a protected route: accounts, sessions and the clock untouched
ProtectedStep(p) ==
    /\ Ready(p, "idle")
    /\ UNCHANGED <<users, sessions, now, ticks, tokens>>

\* lastrowid of an INSERT into notes (AUTOINCREMENT)
NextNoteId == Cardinality(notes) + 1

create_note(p, token, note) ==
    /\ ProtectedStep(p)
    /\ mail' = NoMail
    /\ api' = NoCall
    /\ UNCHANGED email_counts
    /\ LET user == require_auth(token)
           req == [token |-> token, note |-> note]
       IN  IF user = {}
           THEN /\ UNCHANGED notes
                /\ Finish(p, Unauthenticated("create_note", req))
           ELSE IF ~(NoteCreateReads \subseteq NoteCreateFields)
           THEN \* AttributeError: the body has no attribute encounter_time
                /\ UNCHANGED notes
                /\ Finish(p, InternalServerError("create_note", req))
           ELSE \E u \in user :
                  /\ notes' = notes \cup
                        {[id |-> NextNoteId, user_id |-> u.id,
                          label |-> note.label, soap_note |-> note.soap_note]}
                  /\ Finish(p, [op |-> "create_note", req |-> req, status |-> 200,
                                detail |-> "", id |-> NextNoteId])

list_notes(p, token) ==
    /\ ProtectedStep(p)
    /\ mail' = NoMail
    /\ api' = NoCall
    /\ UNCHANGED <<notes, email_counts>>
    /\ LET user == require_auth(token)
           req == [token |-> token]
       IN  IF user = {}
           THEN Finish(p, Unauthenticated("list_notes", req))
           ELSE \E u \in user :
                  Finish(p, [op |-> "list_notes", req |-> req, status |-> 200,
                             detail |-> "",
                             ids |-> {n.id : n \in {m \in notes : m.user_id = u.id}}])

\* SELECT * FROM notes WHERE id = ? AND user_id = ?
note_select(note_id, user_id) ==
    {n \in notes : n.id = note_id /\ n.user_id = user_id}

get_note(p, token, note_id) ==
    /\ ProtectedStep(p)
    /\ mail' = NoMail
    /\ api' = NoCall
    /\ UNCHANGED <<notes, email_counts>>
    /\ LET user == require_auth(token)
           req == [token |-> token, note_id |-> note_id]
       IN  IF user = {}
           THEN Finish(p, Unauthenticated("get_note", req))
           ELSE \E u \in user :
                  IF note_select(note_id, u.id) = {}
                  THEN Finish(p, Reply("get_note", req, 404, "Note not found"))
                  ELSE Finish(p, [op |-> "get_note", req |-> req, status |-> 200,
                                  detail |-> "", id |-> note_id])

delete_note(p, token, note_id) ==
    /\ ProtectedStep(p)
    /\ mail' = NoMail
    /\ api' = NoCall
    /\ UNCHANGED email_counts
    /\ LET user == require_auth(token)
           req == [token |-> token, note_id |-> note_id]
       IN  IF user = {}
           THEN /\ UNCHANGED notes
                /\ Finish(p, Unauthenticated("delete_note", req))
           ELSE \E u \in user :
                  IF note_select(note_id, u.id) = {}
                  THEN /\ UNCHANGED notes
                       /\ Finish(p, Reply("delete_note", req, 404, "Note not found"))
                  ELSE /\ notes' = notes \ note_select(note_id, u.id)
                       /\ Finish(p, Reply("delete_note", req, 200, "Note deleted"))

\* email_counts[user_id], an absent key read as the empty list it is set to
events_of(counts, user_id) ==
    IF user_id \in DOMAIN counts THEN counts[user_id] ELSE <<>>

\* the dictionary with the list of user_id replaced
with_events(counts, user_id, events) ==
    [k \in DOMAIN counts \cup {user_id} |-> IF k = user_id THEN events ELSE counts[k]]

\* mutant: an entry exactly one hour old is kept
clean_old_entries_inclusive(events) ==
    LET recent(e) == e[1] >= now - RATE_WINDOW_MINUTES
    IN  SelectSeq(events, recent)

\* the entries of the last hour: ts > hour_ago
clean_old_entries(events) ==
    LET recent(e) == e[1] > now - RATE_WINDOW_MINUTES
    IN  SelectSeq(events, recent)

\* mutant: the caps are compared with > instead of >=
check_rate_limit_one_more(counts, user_id, note_id) ==
    LET recent(e) == e[1] > now - RATE_WINDOW_MINUTES
        cleaned == SelectSeq(events_of(counts, user_id), recent)
        same_note(e) == e[2] = note_id
        note_emails == Len(SelectSeq(cleaned, same_note))
        after == with_events(counts, user_id, cleaned)
    IN  IF note_emails > MAX_EMAILS_PER_NOTE
        THEN [allowed |-> FALSE, msg |-> "Maximum 3 emails per note reached",
              counts |-> after]
        ELSE IF Len(cleaned) > MAX_EMAILS_PER_HOUR
        THEN [allowed |-> FALSE, msg |-> "Maximum 20 emails per hour reached",
              counts |-> after]
        ELSE [allowed |-> TRUE, msg |-> "", counts |-> after]

\* mutant: an allowed call records its entry itself
check_rate_limit_recording(counts, user_id, note_id) ==
    LET limit == check_rate_limit_one_more(counts, user_id, note_id)
        cleaned == clean_old_entries(events_of(counts, user_id))
        same_note(e) == e[2] = note_id
        allowed == /\ Len(SelectSeq(cleaned, same_note)) < MAX_EMAILS_PER_NOTE
                   /\ Len(cleaned) < MAX_EMAILS_PER_HOUR
    IN  IF allowed
        THEN [allowed |-> TRUE, msg |-> "",
              counts |-> with_events(counts, user_id,
                                     Append(cleaned, <<now, note_id>>))]
        ELSE [limit EXCEPT !.allowed = FALSE]

\* the verdict, its message and the dictionary after the cleaning
check_rate_limit(counts, user_id, note_id) ==
    LET cleaned == clean_old_entries(events_of(counts, user_id))
        same_note(e) == e[2] = note_id
        note_emails == Len(SelectSeq(cleaned, same_note))
        after == with_events(counts, user_id, cleaned)
    IN  IF note_emails >= MAX_EMAILS_PER_NOTE
        THEN [allowed |-> FALSE, msg |-> "Maximum 3 emails per note reached",
              counts |-> after]
        ELSE IF Len(cleaned) >= MAX_EMAILS_PER_HOUR
        THEN [allowed |-> FALSE, msg |-> "Maximum 20 emails per hour reached",
              counts |-> after]
        ELSE [allowed |-> TRUE, msg |-> "", counts |-> after]

record_email(counts, user_id, note_id) ==
    with_events(counts, user_id, Append(events_of(counts, user_id), <<now, note_id>>))

email_note(p, token, note_id) ==
    /\ ProtectedStep(p)
    /\ api' = NoCall
    /\ UNCHANGED notes
    /\ LET user == require_auth(token)
           req == [token |-> token, note_id |-> note_id]
       IN  IF user = {}
           THEN /\ UNCHANGED email_counts
                /\ mail' = NoMail
                /\ Finish(p, Unauthenticated("email_note", req))
           ELSE \E u \in user :
                  LET limit == check_rate_limit(email_counts[p], u.id, note_id)
                      row == note_select(note_id, u.id)
                  IN  IF ~limit.allowed
                      THEN /\ email_counts' = [email_counts EXCEPT ![p] = limit.counts]
                           /\ mail' = NoMail
                           /\ Finish(p, Reply("email_note", req, 429, limit.msg))
                      ELSE IF row = {}
                      THEN /\ email_counts' = [email_counts EXCEPT ![p] = limit.counts]
                           /\ mail' = NoMail
                           /\ Finish(p, Reply("email_note", req, 404, "Note not found"))
                      ELSE \E n \in row, ok \in BOOLEAN :
                             /\ mail' = send_soap_note_email(u.email, "Scribe Note",
                                                             n.soap_note, ok)
                             /\ IF ~ok
                                THEN /\ email_counts' =
                                          [email_counts EXCEPT ![p] = limit.counts]
                                     /\ Finish(p, Reply("email_note", req, 500,
                                                        "Failed to send email"))
                                ELSE /\ email_counts' =
                                          [email_counts EXCEPT ![p] =
                                              record_email(limit.counts, u.id, note_id)]
                                     /\ Finish(p, Reply("email_note", req, 200,
                                                        "Email sent"))

\* not data.dictation or len(data.dictation.strip()) < 10
dictation_too_short(dictation) ==
    dictation = "" \/ Len(strip(dictation)) < MIN_DICTATION_LENGTH

\* client.messages.create: the service answers, or the call raises APIError
messages_create(model, dictation, outcome) ==
    [service |-> "anthropic", model |-> model, content |-> dictation,
     outcome |-> outcome]

extract_demographics(p, token, dictation) ==
    /\ ProtectedStep(p)
    /\ mail' = NoMail
    /\ UNCHANGED <<notes, email_counts>>
    /\ LET req == [token |-> token, dictation |-> dictation]
       IN  IF require_auth(token) = {}
           THEN /\ api' = NoCall
                /\ Finish(p, Unauthenticated("extract_demographics", req))
           ELSE IF dictation_too_short(dictation)
           THEN /\ api' = NoCall
                /\ Finish(p, Reply("extract_demographics", req, 400, "Dictation too short"))
           ELSE \E outcome \in {"json", "not_json", "api_error"} :
                  /\ api' = messages_create("claude-haiku-3-5-20241022", dictation, outcome)
                  /\ Finish(p, Reply("extract_demographics", req,
                                     IF outcome = "json" THEN 200 ELSE 500,
                                     CASE outcome = "json" -> ""
                                       [] outcome = "not_json" -> "Failed to parse AI response"
                                       [] outcome = "api_error" -> "AI service error"))

generate_soap(p, token, dictation) ==
    /\ ProtectedStep(p)
    /\ mail' = NoMail
    /\ UNCHANGED <<notes, email_counts>>
    /\ LET req == [token |-> token, dictation |-> dictation]
       IN  IF require_auth(token) = {}
           THEN /\ api' = NoCall
                /\ Finish(p, Unauthenticated("generate_soap", req))
           ELSE IF dictation_too_short(dictation)
           THEN /\ api' = NoCall
                /\ Finish(p, Reply("generate_soap", req, 400, "Dictation too short"))
           ELSE \E outcome \in {"text", "api_error"} :
                  /\ api' = messages_create("claude-sonnet-4-20250514", dictation, outcome)
                  /\ Finish(p, Reply("generate_soap", req,
                                     IF outcome = "text" THEN 200 ELSE 500,
                                     IF outcome = "text" THEN "" ELSE "AI service error"))

\* client.audio.transcriptions.create: a transcript, or the call raises
transcriptions_create(size, outcome) ==
    [service |-> "openai", model |-> "whisper-1", size |-> size, outcome |-> outcome]

transcribe_audio(p, token, size) ==
    /\ ProtectedStep(p)
    /\ mail' = NoMail
    /\ UNCHANGED <<notes, email_counts>>
    /\ LET req == [token |-> token, size |-> size]
       IN  IF get_current_user(token) = {}
           THEN /\ api' = NoCall
                /\ Finish(p, Unauthenticated("transcribe_audio", req))
           ELSE IF size < MIN_AUDIO_BYTES
           THEN /\ api' = NoCall
                /\ Finish(p, Reply("transcribe_audio", req, 400, "Audio file too small"))
           ELSE IF size > MAX_AUDIO_BYTES
           THEN /\ api' = NoCall
                /\ Finish(p, Reply("transcribe_audio", req, 400,
                                   "Audio file too large (max 25MB)"))
           ELSE \E outcome \in {"text", "error"} :
                  /\ api' = transcriptions_create(size, outcome)
                  /\ Finish(p, Reply("transcribe_audio", req,
                                     IF outcome = "text" THEN 200 ELSE 500,
                                     IF outcome = "text" THEN "" ELSE "Transcription failed"))

(***************************************************************************)
(* The clock.                                                              *)
(***************************************************************************)
Advance(d) ==
    /\ resp = NoResp
    /\ ticks < MaxTicks
    /\ now' = now + d
    /\ ticks' = ticks + 1
    /\ resp' = NoResp
    /\ mail' = NoMail
    /\ NoGlue
    /\ UNCHANGED <<users, sessions, tokens, pc, local>>

(***************************************************************************)
(* The response of the last step goes out to the client.                   *)
(***************************************************************************)
Respond ==
    /\ resp # NoResp
    /\ resp' = NoResp
    /\ mail' = NoMail
    /\ NoGlue
    /\ UNCHANGED <<users, sessions, now, ticks, tokens, pc, local>>

(***************************************************************************)
(* One worker process serving requests one after the other.                *)
(***************************************************************************)
Next ==
    \/ \E data \in RegisterRequests : register(1, data)
    \/ register_write(1)
    \/ \E data \in VerifyRequests : verify(1, data)
    \/ verify_write(1)
    \/ \E data \in LoginRequests : login(1, data)
    \/ login_write(1)
    \/ \E token \in Cookies : logout(1, token)
    \/ \E token \in Cookies : me(1, token)
    \/ \E data \in ForgotRequests : forgot_password(1, data)
    \/ \E data \in ResetRequests : reset_password(1, data)
    \/ \E d \in ClockSteps : Advance(d)
    \/ Respond

Spec == Init /\ [][Next]_vars

(***************************************************************************)
(* Two worker processes on the same database file: the steps of their      *)
(* requests interleave.  One account, two passwords.                       *)
(***************************************************************************)
ConcPasswords == {"longpw123", "otherpw456"}
ConcRegisterRequests ==
    [email : {"a@x.com"}, password : ConcPasswords \cup {"seven77"}, name : {"A"}]
ConcVerifyRequests == [email : {"a@x.com"}, code : Codes]
ConcLoginRequests == [email : {"a@x.com"}, password : ConcPasswords]
ConcForgotRequests == [email : {"a@x.com"}]
ConcResetRequests ==
    [email : {"a@x.com"}, code : {<<1, 2, 3, 4, 5, 6>>}, new_password : {"otherpw456"}]
ConcClockSteps == {16}

NextConc ==
    \/ \E p \in Procs :
          \/ \E data \in ConcRegisterRequests : register(p, data)
          \/ register_write(p)
          \/ \E data \in ConcVerifyRequests : verify(p, data)
          \/ verify_write(p)
          \/ \E data \in ConcLoginRequests : login(p, data)
          \/ login_write(p)
          \/ \E token \in Cookies : logout(p, token)
          \/ \E token \in Cookies : me(p, token)
          \/ \E data \in ConcForgotRequests : forgot_password(p, data)
          \/ \E data \in ConcResetRequests : reset_password(p, data)
    \/ \E d \in ConcClockSteps : Advance(d)
    \/ Respond

SpecConc == Init /\ [][NextConc]_vars

(***************************************************************************)
(* One worker, one account: its sessions issued, revoked and run out, and  *)
(* the protected routes called with every cookie.                          *)
(***************************************************************************)
GateRegisterRequests == [email : {"a@x.com"}, password : {"longpw123"}, name : {"A"}]
GateVerifyRequests == [email : {"a@x.com"}, code : {<<1, 2, 3, 4, 5, 6>>}]
GateLoginRequests == [email : {"a@x.com"}, password : {"longpw123"}]

NextGate ==
    \/ \E data \in GateRegisterRequests : register(1, data)
    \/ register_write(1)
    \/ \E data \in GateVerifyRequests : verify(1, data)
    \/ verify_write(1)
    \/ \E data \in GateLoginRequests : login(1, data)
    \/ login_write(1)
    \/ \E token \in Cookies : logout(1, token)
    \/ \E token \in Cookies, note \in NoteBodies : create_note(1, token, note)
    \/ \E token \in Cookies : list_notes(1, token)
    \/ \E token \in Cookies, note_id \in NoteIds : get_note(1, token, note_id)
    \/ \E token \in Cookies, note_id \in NoteIds : delete_note(1, token, note_id)
    \/ \E token \in Cookies, note_id \in NoteIds : email_note(1, token, note_id)
    \/ \E token \in Cookies, dictation \in Dictations :
          extract_demographics(1, token, dictation)
    \/ \E token \in Cookies, dictation \in Dictations : generate_soap(1, token, dictation)
    \/ \E token \in Cookies, size \in AudioSizes : transcribe_audio(1, token, size)
    \/ \E d \in ClockSteps : Advance(d)
    \/ Respond

SpecGate == Init /\ [][NextGate]_vars

(***************************************************************************)
(* One worker: registration, verification, login and the two password      *)
(* reset routes, with passwords on both sides of the minimum length and    *)
(* requests that leave a field empty.                                      *)
(***************************************************************************)
ResetRegisterRequests ==
    [email : {"a@x.com"}, password : {"", "seven77", "eight888"}, name : {"A"}]
        \cup {[email |-> "b@x.com", password |-> "eight888", name |-> "B"]}
ResetVerifyRequests == [email : {"a@x.com"}, code : {<<1, 2, 3, 4, 5, 6>>}]
ResetLoginRequests == [email : {"a@x.com"}, password : {"eight888", "otherpw456"}]
ResetForgotRequests == [email : {"a@x.com", "b@x.com", "c@x.com", " "}]
ResetResetRequests ==
    [email : {"a@x.com", "c@x.com"}, code : {<<1, 2, 3, 4, 5, 6>>},
     new_password : {"", "seven77", "eight888", "otherpw456"}]
        \cup {[email |-> " ", code |-> <<1, 2, 3, 4, 5, 6>>, new_password |-> "seven77"],
              [email |-> "a@x.com", code |-> <<>>, new_password |-> "seven77"]}

NextReset ==
    \/ \E data \in ResetRegisterRequests : register(1, data)
    \/ register_write(1)
    \/ \E data \in ResetVerifyRequests : verify(1, data)
    \/ verify_write(1)
    \/ \E data \in ResetLoginRequests : login(1, data)
    \/ login_write(1)
    \/ \E data \in ResetForgotRequests : forgot_password(1, data)
    \/ \E data \in ResetResetRequests : reset_password(1, data)
    \/ \E d \in ClockSteps : Advance(d)
    \/ Respond

SpecReset == Init /\ [][NextReset]_vars

(***************************************************************************)
(* check_rate_limit called on its own, on event lists of every length      *)
(* around the two caps, with entries recorded one minute apart.            *)
(***************************************************************************)
RateUsers == {1, 2}
RateNotes == {41, 42}
RateClockSteps == {1, RATE_WINDOW_MINUTES - 1}

\* n entries recorded at time ts for note nid
Burst(n, ts, nid) == [i \in 1..n |-> <<ts, nid>>]

\* the call check_rate_limit(user_id, note_id) of worker p; pruned is the
\* number of entries that the cleaning dropped
Admit(p, user_id, note_id) ==
    /\ Ready(p, "idle")
    /\ UNCHANGED <<users, sessions, now, ticks, tokens, notes>>
    /\ mail' = NoMail
    /\ api' = NoCall
    /\ LET limit == check_rate_limit(email_counts[p], user_id, note_id)
       IN  /\ email_counts' = [email_counts EXCEPT ![p] = limit.counts]
           /\ Finish(p, [op |-> "check_rate_limit",
                         worker |-> p,
                         req |-> [user_id |-> user_id, note_id |-> note_id],
                         allowed |-> limit.allowed,
                         msg |-> limit.msg,
                         pruned |-> Len(events_of(email_counts[p], user_id))
                                       - Len(limit.counts[user_id])])

\* worker 1 has recorded, for user 1, entries at time 0 and entries one
\* minute later, which is now
InitRate ==
    /\ users = {}
    /\ sessions = {}
    /\ now = 1
    /\ ticks = 0
    /\ tokens = 0
    /\ pc = [p \in Procs |-> "idle"]
    /\ local = [p \in Procs |-> NoLocal]
    /\ resp = NoResp
    /\ mail = NoMail
    /\ notes = {}
    /\ api = NoCall
    /\ \E oldSame \in 0..MaxOldSame, oldOther \in {0, MAX_EMAILS_PER_HOUR},
          newSame \in 0..MaxNewSame, newOther \in 0..(MAX_EMAILS_PER_HOUR + 1) :
          LET events == Burst(oldSame, 0, 41) \o Burst(oldOther, 0, 42)
                           \o Burst(newSame, 1, 41) \o Burst(newOther, 1, 42)
          IN  email_counts =
                 [p \in Procs |->
                     IF p = 1 /\ events # <<>>
                     THEN [u \in {1} |-> events]
                     ELSE [u \in {} |-> <<>>]]

NextRate ==
    \/ \E user_id \in RateUsers, note_id \in RateNotes : Admit(1, user_id, note_id)
    \/ \E d \in RateClockSteps : Advance(d)
    \/ Respond

SpecRate == InitRate /\ [][NextRate]_vars

(***************************************************************************)
(* Two workers mailing the notes of one user.  The database file is one    *)
(* that earlier runs have filled: two verified accounts, a session of the  *)
(* first, seven notes of the first and one of the second.  Each worker     *)
(* starts with its own empty email_counts.  The client takes its notes in  *)
(* order, staying with a note until the limiter has its three entries.     *)
(***************************************************************************)
MailUser ==
    [id |-> 1, email |-> "a@x.com", password_hash |-> hashpw("longpw123", "s1"),
     name |-> "A", email_verified |-> 1,
     verification_code_hash |-> NULL, verification_expires |-> NULL]

OtherUser ==
    [id |-> 2, email |-> "b@x.com", password_hash |-> hashpw("otherpw456", "s1"),
     name |-> "B", email_verified |-> 1,
     verification_code_hash |-> NULL, verification_expires |-> NULL]

\* enough notes of the first user for the per-hour cap to be reached with
\* no note over its own cap, and one more
MailNotes == 1..((MAX_EMAILS_PER_HOUR \div MAX_EMAILS_PER_NOTE) + 1)
OtherNote == Cardinality(MailNotes) + 1

InitMail ==
    /\ users = {MailUser, OtherUser}
    /\ sessions =
          {[user_id |-> 1, token_hash |-> hash_token(TokenOf(1)),
            expires_at |-> isoformat(SESSION_EXPIRE_DAYS * MinutesPerDay)]}
    /\ now = 0
    /\ ticks = 0
    /\ tokens = 1
    /\ pc = [p \in Procs |-> "idle"]
    /\ local = [p \in Procs |-> NoLocal]
    /\ resp = NoResp
    /\ mail = NoMail
    /\ notes =
          {[id |-> n, user_id |-> 1, label |-> "visit", soap_note |-> "S: cough"] :
              n \in MailNotes}
             \cup {[id |-> OtherNote, user_id |-> 2, label |-> "visit",
                    soap_note |-> "S: fever"]}
    /\ email_counts = [p \in Procs |-> [u \in {} |-> <<>>]]
    /\ api = NoCall

\* the notes the client asks a worker to mail next: the note of the worker's
\* last entry, and the one after it once that note has its three entries
MailOrder(counts, user_id) ==
    LET events == events_of(counts, user_id)
        last == events[Len(events)][2]
        ofLast == Cardinality({i \in 1..Len(events) : events[i][2] = last})
    IN  IF events = <<>>
        THEN {1}
        ELSE IF ofLast >= MAX_EMAILS_PER_NOTE
        THEN {last, last + 1} \cap MailNotes
        ELSE {last}

NextMail ==
    \/ \E p \in Procs :
          \E note_id \in MailOrder(email_counts[p], 1) \cup {OtherNote} :
             email_note(p, TokenOf(1), note_id)
    \/ Advance(RATE_WINDOW_MINUTES)
    \/ Respond

SpecMail == InitMail /\ [][NextMail]_vars

(***************************************************************************)
(* Properties.                                                             *)
(***************************************************************************)
SessionLifetime == SESSION_EXPIRE_DAYS * MinutesPerDay

\* the sessions that carry the token and have not reached their expiry
LiveSessions(token) ==
    {s \in sessions :
        /\ s.token_hash = hash_token(token)
        /\ fromisoformat(s.expires_at) > now}

\* the accounts stored under a request's email
AccountOf(email) == {u \in users : u.email = lower(email)}

\* the accounts whose pending verification code is the presented one
PendingFor(data) ==
    {u \in AccountOf(data.email) :
        /\ u.verification_code_hash # NULL
        /\ u.verification_code_hash = hash_token(data.code)}

\* row v is row u with only its verification state changed to "verified"
VerifiedFrom(u, v) ==
    /\ v.id = u.id
    /\ v.email = u.email
    /\ v.password_hash = u.password_hash
    /\ v.name = u.name
    /\ v.email_verified = 1
    /\ v.verification_code_hash = NULL
    /\ v.verification_expires = NULL

\* the password is the one the account's verifier was made from
PasswordOf(u, password) == \E salt \in Salts : u.password_hash = hashpw(password, salt)

\* C1: resolve (GET /me) answers with an account exactly when a session row
\* carries the hash of the presented token and expires strictly after the
\* current time, and then with that session's account; an expired session is
\* answered exactly like a token that was never issued (401 Not authenticated).
C1_ResolveIffLiveSession ==
    resp.op = "me" =>
        /\ (resp.status = 200) <=> (LiveSessions(resp.req) # {})
        /\ resp.status = 200 =>
              \E s \in LiveSessions(resp.req) : resp.user = s.user_id
        /\ resp.status # 200 =>
              resp = Reply("me", resp.req, 401, "Not authenticated")

\* a session that has reached its expiry was presented and answered with 401
C1_Witness ==
    /\ resp.op = "me"
    /\ resp.status = 401
    /\ \E s \in sessions :
          /\ s.token_hash = hash_token(resp.req)
          /\ fromisoformat(s.expires_at) = now

ProtectedOps ==
    {"create_note", "list_notes", "get_note", "delete_note", "email_note",
     "extract_demographics", "generate_soap", "transcribe_audio"}

\* C2: a protected operation (note create/list/get/delete, note email, the
\* generation calls, transcription) called with a token that no unexpired
\* session carries (no token, an unknown token, an expired one, a revoked
\* one) answers 401 "Not authenticated" and changes nothing: no account, no
\* session, no note row, no rate-limit event, no email dispatched and no
\* call to a text or speech service.
C2_GateFirst ==
    [][(/\ resp'.op \in ProtectedOps
        /\ LiveSessions(resp'.req.token) = {}) =>
          /\ resp'.status = 401
          /\ resp'.detail = "Not authenticated"
          /\ UNCHANGED <<users, sessions, notes, email_counts>>
          /\ mail' = NoMail
          /\ api' = NoCall]_vars

\* a note email asked for with the token of a session that has run out
C2_Witness ==
    /\ resp.op = "email_note"
    /\ resp.status = 401
    /\ \E s \in sessions :
          /\ s.token_hash = hash_token(resp.req.token)
          /\ fromisoformat(s.expires_at) <= now

\* C4: a verify whose code matches the pending hash and is not past its expiry
\* is not rejected, and the verify that succeeds sets verified, clears both
\* pending fields, leaves every other row alone and adds exactly one session
\* of that account, expiring a session lifetime from now, whose raw token is
\* the cookie of the response.
C4_VerifySucceeds ==
    [][/\ (resp'.op = "verify" /\ resp'.status # 200) =>
             ~\E u \in PendingFor(resp'.req) :
                   now <= fromisoformat(u.verification_expires)
       /\ (resp'.op = "verify" /\ resp'.status = 200) =>
             \E u \in AccountOf(resp'.req.email) :
                /\ \E v \in users' : VerifiedFrom(u, v)
                /\ \A w \in users : w.id # u.id => w \in users'
                /\ Cardinality(users') = Cardinality(users)
                /\ sessions \subseteq sessions'
                /\ Cardinality(sessions' \ sessions) = 1
                /\ \A s \in sessions' \ sessions :
                      /\ s.user_id = u.id
                      /\ s.token_hash = hash_token(resp'.cookie)
                      /\ fromisoformat(s.expires_at) = now' + SessionLifetime
      ]_vars

\* a verify has just succeeded and its session is stored
C4_Witness ==
    /\ resp.op = "verify"
    /\ resp.status = 200
    /\ \E s \in sessions : s.token_hash = hash_token(resp.cookie)

\* C5: a verify is accepted only with a code that matches the pending hash of
\* that email and is not past its expiry, which is 15 minutes after the
\* register call computed it; it fails with "Invalid verification code" when
\* nothing matches and with "Verification code expired" when the match is
\* past its expiry, and a failed verify changes neither users nor sessions.
C5_VerifyFailures ==
    [][/\ (resp'.op = "verify" /\ resp'.status # 200) =>
             /\ UNCHANGED <<users, sessions>>
             /\ resp'.status = 400
             /\ IF PendingFor(resp'.req) = {}
                THEN resp'.detail = "Invalid verification code"
                ELSE /\ resp'.detail = "Verification code expired"
                     /\ \A u \in PendingFor(resp'.req) :
                           now > fromisoformat(u.verification_expires)
       /\ \A p \in Procs :
             (pc[p] = "idle" /\ pc'[p] = "verify_write") =>
                /\ PendingFor(local'[p].data) # {}
                /\ \A u \in PendingFor(local'[p].data) :
                      now <= fromisoformat(u.verification_expires)
       /\ \A p \in Procs :
             (pc[p] = "idle" /\ pc'[p] = "register_write") =>
                fromisoformat(local'[p].expires) = now + CODE_EXPIRE_MINUTES
      ]_vars

\* a matching code was presented after its expiry and refused as expired
C5_Witness ==
    /\ resp.op = "verify"
    /\ resp.detail = "Verification code expired"
    /\ \E u \in PendingFor(resp.req) : now > fromisoformat(u.verification_expires)

\* the verified accounts stay verified
StaysVerified ==
    \A u \in users : u.email_verified = 1 =>
        \E v \in users' : v.id = u.id /\ v.email_verified = 1

\* C6 as stated: a verified account stays verified, and every register called
\* on an already verified account goes no further than its checks, fails with
\* "Email already registered" and changes neither users nor sessions.
C6_Original ==
    [][/\ StaysVerified
       /\ \A p \in Procs :
             (pc[p] = "idle" /\ pc'[p] = "register_write") =>
                ~\E u \in AccountOf(local'[p].data.email) : u.email_verified = 1
       /\ (/\ resp'.op = "register"
           /\ UNCHANGED pc
           /\ \E u \in AccountOf(resp'.req.email) : u.email_verified = 1) =>
             /\ resp'.status = 400
             /\ resp'.detail = "Email already registered"
             /\ UNCHANGED <<users, sessions>>
      ]_vars

\* C6 amended: a verified account stays verified, and every register called
\* on an already verified account goes no further than its checks, fails and
\* changes neither users nor sessions: with the weak-password error when the
\* password is shorter than 8 characters, with "Email already registered"
\* otherwise.
C6_VerifiedIsFinal ==
    [][/\ StaysVerified
       /\ \A p \in Procs :
             (pc[p] = "idle" /\ pc'[p] = "register_write") =>
                ~\E u \in AccountOf(local'[p].data.email) : u.email_verified = 1
       /\ (/\ resp'.op = "register"
           /\ UNCHANGED pc
           /\ \E u \in AccountOf(resp'.req.email) : u.email_verified = 1) =>
             /\ resp'.status = 400
             /\ resp'.detail =
                   IF Len(resp'.req.password) < MIN_PASSWORD_LENGTH
                   THEN "Password must be at least 8 characters"
                   ELSE "Email already registered"
             /\ UNCHANGED <<users, sessions>>
      ]_vars

\* a register on a verified account was refused as already registered
C6_Witness ==
    /\ resp.op = "register"
    /\ resp.detail = "Email already registered"
    /\ \E u \in AccountOf(resp.req.email) : u.email_verified = 1

\* C7: issuing a code leaves exactly that code outstanding and any other code
\* is refused as invalid, for verification codes (register, verify) and for
\* reset codes (requestPasswordReset, resetPassword) alike.
C7_OnlyLatestCodeAccepted ==
    [][/\ (resp'.op = "register" /\ mail'.kind = "verification") =>
             \E u \in users' :
                 /\ u.email = lower(resp'.req.email)
                 /\ u.verification_code_hash = hash_token(mail'.code)
       /\ (resp'.op = "verify" /\ PendingFor(resp'.req) = {}) =>
             resp'.detail = "Invalid verification code"
       /\ (/\ resp'.op = "forgot_password"
           /\ \E u \in users : u.email = strip(lower(resp'.req.email))
                                 /\ u.email_verified = 1) =>
             /\ resp'.status = 200
             /\ \E u \in users' :
                   /\ u.email = strip(lower(resp'.req.email))
                   /\ Column(u, "reset_code_hash") # NULL
       /\ (/\ resp'.op = "reset_password"
           /\ Len(resp'.req.new_password) >= MIN_PASSWORD_LENGTH
           /\ \E u \in users : u.email = strip(lower(resp'.req.email))
                                 /\ u.email_verified = 1
           /\ ~\E u \in users :
                   /\ u.email = strip(lower(resp'.req.email))
                   /\ Column(u, "reset_code_hash") = hash_token(resp'.req.code)) =>
             /\ resp'.status = 400
             /\ resp'.detail = "Invalid reset code"
      ]_vars

\* C8: a login that fails changes neither users nor sessions; it fails with
\* the one message "Invalid email or password" when there is no account and
\* when the password is wrong (verified or not), and with "Please verify your
\* email first" when the password is right and the account unverified; a
\* login is accepted only for a verified account with the right password.
C8_LoginFailures ==
    [][/\ (resp'.op = "login" /\ resp'.status # 200) =>
             /\ UNCHANGED <<users, sessions, tokens>>
             /\ resp'.status = 401
             /\ IF \E u \in AccountOf(resp'.req.email) :
                      PasswordOf(u, resp'.req.password)
                THEN /\ resp'.detail = "Please verify your email first"
                     /\ \A u \in AccountOf(resp'.req.email) : u.email_verified = 0
                ELSE resp'.detail = "Invalid email or password"
       /\ \A p \in Procs :
             (pc[p] = "idle" /\ pc'[p] = "login_write") =>
                \E u \in AccountOf(local'[p].data.email) :
                    /\ PasswordOf(u, local'[p].data.password)
                    /\ u.email_verified = 1
                    /\ UNCHANGED <<users, sessions, tokens>>
      ]_vars

\* the right password of an unverified account was refused
C8_Witness ==
    /\ resp.op = "login"
    /\ resp.detail = "Please verify your email first"
    /\ \E u \in AccountOf(resp.req.email) :
          PasswordOf(u, resp.req.password) /\ u.email_verified = 0

\* C9: a login that succeeds changes no account, keeps every session row and
\* adds exactly one, of the account logged in, whose token is the cookie of
\* the response and differs from every token already stored; every token
\* that resolved before the login resolves to the same account after it.
C9_LoginAddsOneSession ==
    [][(resp'.op = "login" /\ resp'.status = 200) =>
          /\ UNCHANGED users
          /\ sessions \subseteq sessions'
          /\ Cardinality(sessions' \ sessions) = 1
          /\ \A s \in sessions' \ sessions :
                /\ s.token_hash = hash_token(resp'.cookie)
                /\ \E u \in AccountOf(resp'.req.email) : s.user_id = u.id
                /\ fromisoformat(s.expires_at) = now' + SessionLifetime
          /\ \A s \in sessions : s.token_hash # hash_token(resp'.cookie)
          /\ \A token \in Cookies :
                get_current_user(token) \subseteq get_current_user(token)'
      ]_vars

\* a login has just succeeded for an account whose verification-issued
\* session is still live: two different tokens resolve to the account
C9_Witness ==
    /\ resp.op = "login"
    /\ resp.status = 200
    /\ \E s, t \in sessions :
          /\ s.token_hash = hash_token(resp.cookie)
          /\ t.token_hash # s.token_hash
          /\ t.user_id = s.user_id
          /\ fromisoformat(t.expires_at) > now
          /\ get_current_user(resp.cookie) # {}

\* C10: logout always answers 200 "Logged out", changes no account, removes
\* only rows that carry the hash of the presented token, leaves the session
\* table unchanged when no row does, and leaves no such row behind (so a
\* second call with the same token finds nothing to remove).
C10_RevokeIdempotent ==
    [][resp'.op = "logout" =>
          /\ resp'.status = 200
          /\ resp'.detail = "Logged out"
          /\ UNCHANGED users
          /\ sessions' \subseteq sessions
          /\ \A s \in sessions \ sessions' : s.token_hash = hash_token(resp'.req)
          /\ (~\E s \in sessions : s.token_hash = hash_token(resp'.req)) =>
                sessions' = sessions
          /\ ~\E s \in sessions' : s.token_hash = hash_token(resp'.req)
      ]_vars

\* a token that was issued and already revoked is revoked once more
C10_Witness ==
    /\ resp.op = "logout"
    /\ resp.status = 200
    /\ resp.rowcount = 0
    /\ \E n \in 1..tokens : resp.req = TokenOf(n)

\* C3: under every interleaving of the steps of two workers, every session
\* row belongs to an account whose verified flag is set, and every token that
\* resolves resolves to a verified account.
C3_SessionsOfVerified ==
    /\ \A s \in sessions :
          \E u \in users : u.id = s.user_id /\ u.email_verified = 1
    /\ \A token \in Cookies :
          \A u \in get_current_user(token) : u.email_verified = 1

\* a token resolves while the write of a register that started before the
\* account was verified is still to come
C3_Witness ==
    /\ \E token \in Cookies : get_current_user(token) # {}
    /\ \E p \in Procs : pc[p] = "register_write"
    /\ \E p \in Procs : pc[p] = "login_write"

(***************************************************************************)
(* Password reset.                                                         *)
(***************************************************************************)
GenericAcknowledgement ==
    "If an account exists with that email, a reset code has been sent"

\* the accounts a reset route finds for the email of its request
ResetAccountOf(email) == {u \in users : u.email = strip(lower(email))}

\* row v is row u but for its two pending reset fields
SameButReset(u, v) ==
    /\ v.id = u.id
    /\ v.email = u.email
    /\ v.password_hash = u.password_hash
    /\ v.name = u.name
    /\ v.email_verified = u.email_verified
    /\ v.verification_code_hash = u.verification_code_hash
    /\ v.verification_expires = u.verification_expires

\* C11: a reset request with an email that is not blank gets the one generic
\* acknowledgement, status and text alike, whether the account is unknown,
\* unverified or verified and whether or not the code could be dispatched.
C11_SameAcknowledgement ==
    [][(/\ resp'.op = "forgot_password"
        /\ strip(lower(resp'.req.email)) # "") =>
          /\ resp'.status = 200
          /\ resp'.detail = GenericAcknowledgement]_vars

\* C12: a reset request stores the hash of a fresh code with an expiry of
\* now + 15 minutes and dispatches that code exactly when the email is that
\* of a verified account; otherwise it changes no account and dispatches
\* nothing; it never changes a password verifier, a verified flag, a
\* verification field or a session.
C12_ResetCodeIffVerified ==
    [][resp'.op = "forgot_password" =>
          /\ UNCHANGED sessions
          /\ \A u \in users : \E v \in users' : SameButReset(u, v)
          /\ Cardinality(users') = Cardinality(users)
          /\ IF \E u \in ResetAccountOf(resp'.req.email) : u.email_verified = 1
             THEN /\ mail'.kind = "reset"
                  /\ \E v \in users' :
                        /\ v.email = strip(lower(resp'.req.email))
                        /\ Column(v, "reset_code_hash") = hash_token(mail'.code)
                        /\ Column(v, "reset_code_expires") =
                              isoformat(now + CODE_EXPIRE_MINUTES)
             ELSE /\ mail' = NoMail
                  /\ UNCHANGED users]_vars

\* a reset request whose three fields are present and whose password is long
\* enough
WellFormedReset(req) ==
    /\ strip(lower(req.email)) # ""
    /\ req.code # <<>>
    /\ Len(req.new_password) >= MIN_PASSWORD_LENGTH

\* C13: a reset of a verified account's password either is refused with a
\* 400 that leaves the accounts alone or succeeds, and after a success the
\* account's verifier accepts the new password and no other, so that a login
\* with the new password passes its checks and one with the old password
\* fails with "Invalid email or password".
C13_ResetRoundTrip ==
    [][(/\ resp'.op = "reset_password"
        /\ WellFormedReset(resp'.req)
        /\ \E u \in ResetAccountOf(resp'.req.email) : u.email_verified = 1) =>
          \/ resp'.status = 400 /\ UNCHANGED users
          \/ /\ resp'.status = 200
             /\ \A v \in users' :
                   v.email = strip(lower(resp'.req.email)) =>
                      /\ checkpw(resp'.req.new_password, v.password_hash)
                      /\ login_check(v, [email |-> v.email,
                                         password |-> resp'.req.new_password]) = ""
                      /\ \A old \in Passwords \ {resp'.req.new_password} :
                            login_check(v, [email |-> v.email, password |-> old])
                               = "Invalid email or password"]_vars

\* C14: a reset that does not succeed leaves accounts and sessions as they
\* were; with its fields present and a password of 8 characters or more it
\* fails with "Invalid reset code" when no account of that email holds the
\* hash of the presented code (unknown account, nothing pending, another
\* code) and with "Reset code expired" when one does and is past its expiry.
C14_ResetFailures ==
    [][(resp'.op = "reset_password" /\ resp'.status # 200) =>
          /\ UNCHANGED <<users, sessions>>
          /\ WellFormedReset(resp'.req) =>
                /\ resp'.status = 400
                /\ IF \E u \in ResetAccountOf(resp'.req.email) :
                         Column(u, "reset_code_hash") = hash_token(resp'.req.code)
                   THEN /\ resp'.detail = "Reset code expired"
                        /\ \A u \in ResetAccountOf(resp'.req.email) :
                              now > fromisoformat(Column(u, "reset_code_expires"))
                   ELSE resp'.detail = "Invalid reset code"]_vars

WeakPassword == "Password must be at least 8 characters"

\* a register that is refused, or a reset, leaves everything stored alone
\* and dispatches nothing
NothingIssued ==
    /\ UNCHANGED <<users, sessions, tokens>>
    /\ mail' = NoMail

\* the claim as stated: both routes answer every password shorter than 8
\* characters with the weak-password error, and no longer one
C15_Original ==
    [][/\ resp'.op = "register" =>
             (resp'.detail = WeakPassword <=>
                 Len(resp'.req.password) < MIN_PASSWORD_LENGTH)
       /\ resp'.op = "reset_password" =>
             (resp'.detail = WeakPassword <=>
                 Len(resp'.req.new_password) < MIN_PASSWORD_LENGTH)
       /\ (resp'.op \in {"register", "reset_password"}
             /\ resp'.detail = WeakPassword) =>
                resp'.status = 400 /\ NothingIssued]_vars

\* C15: register answers 400 "Password must be at least 8 characters" for
\* exactly the passwords shorter than 8 characters, before it reads or
\* writes anything: a register goes on to its write only with a password of
\* 8 characters or more.  A reset answers with that error for exactly the
\* passwords shorter than 8 characters of requests whose email, code and
\* password are all present; a request with an empty field, the empty
\* password included, gets "Email, code, and new password are required".
\* Either refusal changes nothing stored and dispatches nothing.
C15_WeakPassword ==
    [][/\ resp'.op = "register" =>
             (resp'.detail = WeakPassword <=>
                 Len(resp'.req.password) < MIN_PASSWORD_LENGTH)
       /\ \A p \in Procs :
             (pc[p] = "idle" /\ pc'[p] = "register_write") =>
                /\ Len(local'[p].data.password) >= MIN_PASSWORD_LENGTH
                /\ NothingIssued
       /\ resp'.op = "reset_password" =>
             LET req == resp'.req
                 present == /\ strip(lower(req.email)) # ""
                            /\ req.code # <<>>
                            /\ req.new_password # ""
             IN  /\ resp'.detail = WeakPassword <=>
                       (present /\ Len(req.new_password) < MIN_PASSWORD_LENGTH)
                 /\ ~present =>
                       /\ resp'.status = 400
                       /\ resp'.detail = "Email, code, and new password are required"
                       /\ NothingIssued
       /\ (resp'.op \in {"register", "reset_password"}
             /\ resp'.detail = WeakPassword) =>
                resp'.status = 400 /\ NothingIssued]_vars

\* a register with a password of exactly 8 characters has gone through, and
\* a reset with a 7-character password is being refused as weak
C15_Witness ==
    /\ resp.op = "reset_password"
    /\ resp.detail = WeakPassword
    /\ Len(resp.req.new_password) = MIN_PASSWORD_LENGTH - 1
    /\ \E u \in users : PasswordOf(u, "eight888")

(***************************************************************************)
(* The rate limiter.                                                       *)
(***************************************************************************)
PerNoteReason == "Maximum 3 emails per note reached"
PerHourReason == "Maximum 20 emails per hour reached"

\* the positions of the entries of a list that are less than an hour old at
\* time t, and of those among them that are of one note
InWindow(events, t) ==
    {i \in 1..Len(events) : t - events[i][1] < RATE_WINDOW_MINUTES}

InWindowOf(events, t, note_id) ==
    {i \in InWindow(events, t) : events[i][2] = note_id}

\* C16: check_rate_limit refuses with the per-note reason when 3 or more of
\* the user's entries of the last 60 minutes are of that note, refuses with
\* the per-hour reason when fewer than 3 are and 20 or more entries of the
\* user lie in the last 60 minutes, and allows otherwise.
C16_AdmitVerdict ==
    [][resp'.op = "check_rate_limit" =>
          LET events == events_of(email_counts[resp'.worker], resp'.req.user_id)
              ofNote == Cardinality(InWindowOf(events, now, resp'.req.note_id))
              ofUser == Cardinality(InWindow(events, now))
          IN  IF ofNote >= MAX_EMAILS_PER_NOTE
              THEN ~resp'.allowed /\ resp'.msg = PerNoteReason
              ELSE IF ofUser >= MAX_EMAILS_PER_HOUR
              THEN ~resp'.allowed /\ resp'.msg = PerHourReason
              ELSE resp'.allowed /\ resp'.msg = ""]_vars

\* refused by the per-hour cap alone: 20 or more entries of the user are in
\* the window and fewer than 3 of them are of the note asked for
C16_Witness ==
    /\ resp.op = "check_rate_limit"
    /\ ~resp.allowed
    /\ resp.msg = PerHourReason
    /\ LET events == events_of(email_counts[resp.worker], resp.req.user_id)
       IN  /\ Cardinality(InWindow(events, now)) >= MAX_EMAILS_PER_HOUR
           /\ Cardinality(InWindowOf(events, now, resp.req.note_id))
                 < MAX_EMAILS_PER_NOTE

\* C18: every call of check_rate_limit leaves of the user's list exactly the
\* entries younger than 60 minutes, in their order, and adds none; its
\* verdict is that of the entries left, so an entry 60 minutes old or older
\* counts toward neither cap, and a user all of whose entries have reached
\* that age is allowed again without any further record.
C18_SlidingWindow ==
    [][resp'.op = "check_rate_limit" =>
          LET before == events_of(email_counts[resp'.worker], resp'.req.user_id)
              after == email_counts'[resp'.worker][resp'.req.user_id]
              kept == Cardinality(InWindow(before, now))
              ofNote == Cardinality({i \in 1..Len(after) :
                                        after[i][2] = resp'.req.note_id})
          IN  /\ Len(after) = kept
              /\ after = SubSeq(before, Len(before) - kept + 1, Len(before))
              /\ \A i \in 1..Len(after) : now - after[i][1] < RATE_WINDOW_MINUTES
              /\ resp'.pruned = Len(before) - kept
              /\ resp'.allowed <=>
                    (ofNote < MAX_EMAILS_PER_NOTE /\ Len(after) < MAX_EMAILS_PER_HOUR)
              /\ kept = 0 => resp'.allowed /\ after = <<>>
              /\ \A q \in Procs : \A u \in DOMAIN email_counts[q] :
                    (q # resp'.worker \/ u # resp'.req.user_id) =>
                        /\ u \in DOMAIN email_counts'[q]
                        /\ email_counts'[q][u] = email_counts[q][u]]_vars

\* a user with 20 or more entries, enough for a refusal while they were
\* young, is allowed once the clock has moved and the call has dropped them
C18_Witness ==
    /\ resp.op = "check_rate_limit"
    /\ resp.allowed
    /\ ticks > 0
    /\ resp.pruned >= MAX_EMAILS_PER_HOUR
    /\ email_counts[resp.worker][resp.req.user_id] = <<>>

\* the entries of user_id in the list of worker p, none when it has no list
EventsIn(counts, p, user_id) == events_of(counts[p], user_id)

\* the entries of a user, or of a user for one note, less than an hour old
\* now, over the lists of all workers
RecordedInWindow(user_id) ==
    UNION {{<<p, i>> : i \in InWindow(EventsIn(email_counts, p, user_id), now)} :
              p \in Procs}

RecordedInWindowOf(user_id, note_id) ==
    UNION {{<<p, i>> : i \in InWindowOf(EventsIn(email_counts, p, user_id), now,
                                       note_id)} : p \in Procs}

OnlyPruned(before, after) ==
    /\ Len(after) <= Len(before)
    /\ after = SubSeq(before, Len(before) - Len(after) + 1, Len(before))

\* C19: an email_note request that is refused by the limiter (429), whose
\* note is not found (404) or whose dispatch fails (500) adds no entry to
\* any list: lists only lose old entries; a request that answers 200 has
\* dispatched the note and appends exactly one entry, of its user, its note
\* and the current time, to the list of the worker that served it, after
\* the cleaning, and to no other list.
C19_QuotaOnlyOnSuccess ==
    [][resp'.op = "email_note" =>
          LET grown == {p \in Procs :
                           ~OnlyPruned(EventsIn(email_counts, p, 1),
                                       EventsIn(email_counts', p, 1))}
          IN  /\ resp'.status \in {200, 401, 404, 429, 500}
              /\ resp'.status = 500 <=> (mail'.kind = "soap_note" /\ ~mail'.ok)
              /\ resp'.status = 200 <=> (mail'.kind = "soap_note" /\ mail'.ok)
              /\ resp'.status # 200 => grown = {}
              /\ resp'.status = 200 =>
                    /\ Cardinality(grown) = 1
                    /\ \A p \in grown :
                          LET before == EventsIn(email_counts, p, 1)
                              after == EventsIn(email_counts', p, 1)
                          IN  /\ after[Len(after)] = <<now, resp'.req.note_id>>
                              /\ OnlyPruned(before, SubSeq(after, 1, Len(after) - 1))
                              /\ Len(after) - 1 = Cardinality(InWindow(before, now))
              /\ \A p \in Procs : \A u \in DOMAIN email_counts'[p] :
                    u # 1 => email_counts'[p][u] = <<>>]_vars

\* a dispatch has just failed for a note that the user had mailed before:
\* the list still holds the earlier entries only
C19_Witness ==
    /\ resp.op = "email_note"
    /\ resp.status = 500
    /\ mail.kind = "soap_note"
    /\ \E p \in Procs :
          /\ Len(EventsIn(email_counts, p, 1)) = 1
          /\ EventsIn(email_counts, p, 1)[1][2] = resp.req.note_id

(***************************************************************************)
(* Concurrent registration.                                                *)
(***************************************************************************)
\* the answers of a register call that ran to its end
RegisterAnswers ==
    {"Password must be at least 8 characters",
     "Email already registered",
     "Verification code sent to your email",
     "Failed to send verification email"}

\* C20: register calls for the same email that is not verified yet, an
\* email without an account included, never fail on the duplicate key:
\* under every interleaving each call completes with one of the answers of
\* register, one row exists for the email, and the pending code and the
\* password verifier of that row are those of one of the calls.
C20_ConcurrentRegister ==
    [][resp'.op = "register" =>
          /\ resp'.detail \in RegisterAnswers
          /\ \A u, v \in users' : u.email = v.email => u = v
          /\ resp'.status = 200 =>
                \E u \in users' :
                   /\ u.email = lower(resp'.req.email)
                   /\ \E code \in Codes : u.verification_code_hash = hash_token(code)
                   /\ \E data \in ConcRegisterRequests :
                         \E salt \in Salts :
                            u.password_hash = hashpw(data.password, salt)]_vars

(***************************************************************************)
(* What the tables keep of tokens and codes.                               *)
(***************************************************************************)
\* the stored value is the SHA-256 digest of one of the secrets
DigestOf(h, secrets) ==
    /\ Len(h) = 2
    /\ h[1] = "sha256"
    /\ h[2] \in secrets

\* the session tokens generated so far
IssuedTokens == {TokenOf(n) : n \in 1..tokens}

\* every token and code column of the two tables holds a digest
StoredDigests ==
    /\ \A s \in sessions : DigestOf(s.token_hash, IssuedTokens)
    /\ \A u \in users :
          /\ u.verification_code_hash = NULL
                \/ DigestOf(u.verification_code_hash, Codes)
          /\ Column(u, "reset_code_hash") = NULL
                \/ DigestOf(Column(u, "reset_code_hash"), Codes)
          /\ u.password_hash[1] = "bcrypt"

\* C21: bearer secrets are never persisted raw.  After every step each
\* stored session token_hash is hash_token of a generated token, each stored
\* verification code hash and reset code hash is hash_token of a code, and
\* no such column holds the token or the code itself; the raw session token
\* leaves the server once, as the cookie of the verify or login response
\* that created its session, and no other response carries a token.
C21_OnlyDigestsStored ==
    [][/\ StoredDigests'
       /\ "cookie" \in DOMAIN resp' <=>
             (resp'.op \in {"verify", "login"} /\ resp'.status = 200)
       /\ "cookie" \in DOMAIN resp' =>
             /\ tokens' = tokens + 1
             /\ resp'.cookie = TokenOf(tokens')
             /\ resp'.cookie \notin IssuedTokens
             /\ \A s \in sessions : s.token_hash # hash_token(resp'.cookie)
             /\ \E s \in sessions' \ sessions :
                   s.token_hash = hash_token(resp'.cookie)
       /\ "cookie" \notin DOMAIN resp' => tokens' = tokens]_vars

\* a login has just handed out the second token while another account still
\* waits for its verification code
C21_Witness ==
    /\ resp.op = "login"
    /\ resp.status = 200
    /\ resp.cookie = TokenOf(2)
    /\ Cardinality(sessions) = 2
    /\ \E u \in users : u.verification_code_hash # NULL

(***************************************************************************)
(* The dispatch of the verification code fails.                            *)
(***************************************************************************)
DispatchFailure == "Failed to send verification email"

\* C22: when the notification dispatcher reports failure during register,
\* the call fails with the dispatch error, surfaced to the caller as status
\* 500, and not with the success message; the success message is returned
\* exactly when the dispatcher reported success.
C22_DispatchFailureSurfaced ==
    [][(resp'.op = "register" /\ mail'.kind = "verification") =>
          /\ mail'.to = resp'.req.email
          /\ ~mail'.ok =>
                /\ resp'.status = 500
                /\ resp'.detail = DispatchFailure
          /\ mail'.ok =>
                /\ resp'.status = 200
                /\ resp'.detail = "Verification code sent to your email"]_vars

\* the dispatcher has just reported a failure to a register call
C22_Witness ==
    /\ resp.op = "register"
    /\ resp.status = 500
    /\ mail.kind = "verification"
    /\ ~mail.ok

(***************************************************************************)
(* The variants of an account.                                             *)
(***************************************************************************)
\* C23: in every reachable state each account is Unverified with no pending
\* code, Unverified with a pending verification code, Verified with nothing
\* pending, or Verified with a pending reset code: a verified account has no
\* pending verification code, an unverified account has no pending reset
\* code, and a code hash and its expiry are both present or both absent.
C23_LegalVariants ==
    \A u \in users :
       /\ u.email_verified \in {0, 1}
       /\ (u.verification_code_hash = NULL) <=> (u.verification_expires = NULL)
       /\ (Column(u, "reset_code_hash") = NULL)
             <=> (Column(u, "reset_code_expires") = NULL)
       /\ u.email_verified = 1 => u.verification_code_hash = NULL
       /\ u.email_verified = 0 => Column(u, "reset_code_hash") = NULL

(***************************************************************************)
(* Codes are used once.                                                    *)
(***************************************************************************)
\* the accounts of the email whose verification code has been consumed
Consumed(email) ==
    {u \in AccountOf(email) :
        /\ u.email_verified = 1
        /\ u.verification_code_hash = NULL}

\* C24: one-time codes are single-use.  Once a verify has succeeded for an
\* account its code is consumed: a verify answered after that, with that code
\* or any other, fails with "Invalid verification code" and creates no
\* session.  A resetPassword that succeeds consumes its code likewise: it
\* leaves no pending reset hash, and a resetPassword whose code matches no
\* pending reset hash does not succeed.
C24_CodesSingleUse ==
    [][/\ (resp'.op = "verify" /\ Consumed(resp'.req.email) # {}) =>
             /\ resp'.status = 400
             /\ resp'.detail = "Invalid verification code"
             /\ UNCHANGED sessions
       /\ (resp'.op = "reset_password" /\ resp'.status = 200) =>
             /\ \E u \in ResetAccountOf(resp'.req.email) :
                   Column(u, "reset_code_hash") = hash_token(resp'.req.code)
             /\ \A u \in users' :
                   u.email = strip(lower(resp'.req.email)) =>
                      Column(u, "reset_code_hash") = NULL]_vars

(***************************************************************************)
(* Revocation.                                                             *)
(***************************************************************************)
\* One worker, two accounts with one password each: sessions are issued by
\* verify and login, revoked and left to run out.
RevokeRegisterRequests ==
    [email : {"a@x.com", "b@x.com"}, password : {"longpw123"}, name : {"A"}]
RevokeVerifyRequests == [email : {"a@x.com", "b@x.com"}, code : {<<1, 2, 3, 4, 5, 6>>}]
RevokeLoginRequests == [email : {"a@x.com", "b@x.com"}, password : {"longpw123"}]

NextRevoke ==
    \/ \E data \in RevokeRegisterRequests : register(1, data)
    \/ register_write(1)
    \/ \E data \in RevokeVerifyRequests : verify(1, data)
    \/ verify_write(1)
    \/ \E data \in RevokeLoginRequests : login(1, data)
    \/ login_write(1)
    \/ \E token \in Cookies : logout(1, token)
    \/ \E d \in ClockSteps : Advance(d)
    \/ Respond

SpecRevoke == Init /\ [][NextRevoke]_vars

\* the tokens a client can hold
SessionTokens == Cookies \ {NoToken}

\* C25: revocation is effective and scoped.  Once logout has been called
\* with a token that the server has issued, that token resolves to no
\* account in any later state (tokens are generated fresh); and a
\* token that resolves keeps resolving, to the same account, across every
\* step that is neither a logout with that very token nor a step of the
\* clock to or past the expiry of its session: logout with another token,
\* of the same account or of another, does not touch it.
C25_RevocationScoped ==
    /\ \A token \in SessionTokens :
          []((resp.op = "logout" /\ resp.req = token /\ token \in IssuedTokens) =>
                [](get_current_user(token) = {}))
    /\ [][\A token \in SessionTokens :
             \A s \in LiveSessions(token) :
                \/ resp'.op = "logout" /\ resp'.req = token
                \/ fromisoformat(s.expires_at) <= now'
                \/ /\ s \in sessions'
                   /\ \E u \in users' : u.id = s.user_id]_vars

\* one of two live sessions of an account has just been revoked: the other
\* one still resolves
C25_Witness ==
    /\ resp.op = "logout"
    /\ resp.rowcount = 1
    /\ get_current_user(resp.req) = {}
    /\ \E s \in sessions :
          /\ fromisoformat(s.expires_at) > now
          /\ \E n \in 1..tokens :
                /\ s.token_hash = hash_token(TokenOf(n))
                /\ TokenOf(n) # resp.req
                /\ \E u \in get_current_user(TokenOf(n)) : u.id = s.user_id

(***************************************************************************)
(* Notes mailed one request after the other.  The database file holds two  *)
(* verified accounts, a session of each, seven notes of the first and one  *)
(* of the second.  The first worker serves both users, the first user with *)
(* the notes taken in order; the second worker is asked for the first note *)
(* of the first user only.  The clock moves once, by the window or by a     *)
(* minute less.                                                            *)
(***************************************************************************)
SentClockSteps == {RATE_WINDOW_MINUTES - 1, RATE_WINDOW_MINUTES}

InitSent ==
    /\ users = {MailUser, OtherUser}
    /\ sessions =
          {[user_id |-> u.id, token_hash |-> hash_token(TokenOf(u.id)),
            expires_at |-> isoformat(SESSION_EXPIRE_DAYS * MinutesPerDay)] :
              u \in {MailUser, OtherUser}}
    /\ now = 0
    /\ ticks = 0
    /\ tokens = Cardinality({MailUser, OtherUser})
    /\ pc = [p \in Procs |-> "idle"]
    /\ local = [p \in Procs |-> NoLocal]
    /\ resp = NoResp
    /\ mail = NoMail
    /\ notes =
          {[id |-> n, user_id |-> MailUser.id, label |-> "visit",
            soap_note |-> "S: cough"] : n \in MailNotes}
             \cup {[id |-> OtherNote, user_id |-> OtherUser.id, label |-> "visit",
                    soap_note |-> "S: fever"]}
    /\ email_counts = [p \in Procs |-> [u \in {} |-> <<>>]]
    /\ api = NoCall

NextSent ==
    \/ \E note_id \in MailOrder(email_counts[1], MailUser.id) :
          email_note(1, TokenOf(MailUser.id), note_id)
    \/ email_note(1, TokenOf(OtherUser.id), OtherNote)
    \/ email_note(2, TokenOf(MailUser.id), 1)
    \/ \E d \in SentClockSteps : ticks = 0 /\ Advance(d)
    \/ Respond

SpecSent == InitSent /\ [][NextSent]_vars

\* the account that the request just answered was made for
Requester == get_current_user(resp.req.token)

UndeliveredRegisterRequests ==
    [email : {"a@x.com"}, password : {"longpw123", "otherpw456"}, name : {"A", "B"}]
        \cup {[email |-> "b@x.com", password |-> "longpw123", name |-> "B"]}
UndeliveredVerifyRequests == [email : {"a@x.com", "b@x.com"}, code : Codes]
UndeliveredLoginRequests == [email : {"a@x.com"}, password : {"longpw123", "otherpw456"}]

NextUndelivered ==
    \/ \E data \in UndeliveredRegisterRequests : register(1, data)
    \/ /\ register_write(1)
       /\ mail' # NoMail => ~mail'.ok
    \/ \E data \in UndeliveredVerifyRequests : verify(1, data)
    \/ verify_write(1)
    \/ \E data \in UndeliveredLoginRequests : login(1, data)
    \/ login_write(1)
    \/ \E d \in ClockSteps : Advance(d)
    \/ Respond

SpecUndelivered == Init /\ [][NextUndelivered]_vars

\* C28: a register call that fails on the dispatch is not rolled back.  The
\* insert or update was committed before the dispatch: after the failure the
\* account of the email exists, unverified, with the verifier of the
\* request's password, its name, the hash of the code that was not delivered
\* and an expiry 15 minutes after the call computed it; and a verify that
\* presents the pending code of an account no later than its expiry is not
\* refused.
C28_NotRolledBack ==
    [][/\ (resp'.op = "register" /\ resp'.detail = DispatchFailure) =>
             /\ resp'.status = 500
             /\ mail'.kind = "verification"
             /\ \E u \in users' :
                   /\ u.email = lower(resp'.req.email)
                   /\ u.email_verified = 0
                   /\ PasswordOf(u, resp'.req.password)
                   /\ u.name = resp'.req.name
                   /\ u.verification_code_hash = hash_token(mail'.code)
                   /\ fromisoformat(u.verification_expires)
                         <= now + CODE_EXPIRE_MINUTES
             /\ \A v \in users :
                   v.email # lower(resp'.req.email) => v \in users'
       /\ (resp'.op = "verify"
             /\ \E u \in PendingFor(resp'.req) :
                   now <= fromisoformat(u.verification_expires)) =>
             /\ resp'.status = 200
             /\ \E u \in users' :
                   /\ u.email = lower(resp'.req.email)
                   /\ u.email_verified = 1]_vars

\* every dispatch has failed, and a verify that presented the pending code
\* at the last minute of its 15 has verified the account
C28_Witness ==
    /\ resp.op = "verify"
    /\ resp.status = 200
    /\ now = CODE_EXPIRE_MINUTES
    /\ \E u \in AccountOf(resp.req.email) :
          /\ u.email_verified = 1
          /\ \E s \in sessions : s.user_id = u.id

====
